---- MODULE Spec2Model ----
(***************************************************************************)
(* Model of dp-frontend-router: the middleware chain and the route table   *)
(* built by router.New (src/router/router.go) and the analytics sink       *)
(* sqsBackend.Store (src/analytics/backend_sqs.go).                        *)
(*                                                                         *)
(* A request path is a sequence of one-character strings, so that the      *)
(* prefix, exact-match and extension tests of the code are computed on     *)
(* the characters of the path as the code computes them.                   *)
(***************************************************************************)
EXTENDS Naturals, Sequences, FiniteSets

VARIABLES cfg, otelEnabled, chain, routes, handlers,
          pc, path, pos, trace, header, served, tier,
          spc, args, jb, sendCalls, logs, blocked, responded

routerVars == <<cfg, otelEnabled, chain, routes, handlers,
                pc, path, pos, trace, header, served, tier>>
storeVars == <<spc, args, jb, sendCalls, logs, blocked, responded>>
vars == <<routerVars, storeVars>>

----------------------------------------------------------------------------
(* Bounds *)

\* longest time (in steps) the model lets one SendMessage call block
MaxBlock == 2

----------------------------------------------------------------------------
(* Strings of the source, as character sequences *)

\* strings.HasPrefix(s, prefix)
HasPrefix(s, prefix) ==
    /\ Len(s) >= Len(prefix)
    /\ SubSeq(s, 1, Len(prefix)) = prefix

\* "/health"
HealthPath == <<"/", "h", "e", "a", "l", "t", "h">>

\* "/embed"
EmbedPath == <<"/", "e", "m", "b", "e", "d">>

\* "/visualisations/"
VisualisationsPrefix == <<"/", "v", "i", "s", "u", "a", "l", "i", "s", "a", "t", "i", "o", "n", "s", "/">>

\* "/census/maps/"
CensusMapsPrefix == <<"/", "c", "e", "n", "s", "u", "s", "/", "m", "a", "p", "s", "/">>

----------------------------------------------------------------------------
(* Configuration: router.Config and the startup toggle *)

\* the feature flags of Config that New reads
Flags == {"CensusAtlasEnabled", "DatasetFinderEnabled",
          "LegacySearchRedirectsEnabled", "SearchRoutesEnabled",
          "DataAggregationPagesEnabled", "RelCalEnabled",
          "UseNewReleaseCalendar", "NewDatasetRoutingEnabled"}

\* values of Config.RelCalRoutePrefix: "" and "/p"
RelCalRoutePrefixes == {<<>>, <<"/", "p">>}

\* every Config value New can be given: a flag assignment and a route prefix
Configs ==
    {[flags |-> f, RelCalRoutePrefix |-> p] :
        f \in [Flags -> BOOLEAN], p \in RelCalRoutePrefixes}

----------------------------------------------------------------------------
(* The middleware chain: alice.New(middleware...).Then(router) *)

\* variant: the redirect resolver registered ahead of the health check
MiddlewareRedirectsFirst(otel) ==
    <<"RequestID", "Logger", "Security", "Redirects", "Health">>
        \o (IF otel THEN <<"Otel">> ELSE <<>>)

\* the alice constructors of New, in slice order; alice runs the first
\* constructor outermost, so this is the order a request meets the stages
Middleware(otel) ==
    <<"RequestID", "Logger", "Security", "Health", "Redirects">>
        \o (IF otel THEN <<"Otel">> ELSE <<>>)

\* alice.New(middleware...).Then(router): the stages, then the mux router
Chain(otel) == Middleware(otel) \o <<"Router">>

----------------------------------------------------------------------------
(* The route table: the routes New registers on the mux router, in order *)

\* router.Handle(tpl, h): tpl is a literal followed, when wild, by {name:.*};
\* mux anchors the template, so it matches lit exactly or any path under it
PathRoute(lit, wild, h) ==
    [kind |-> "path", lit |-> lit, wild |-> wild, matcher |-> "", handler |-> h]

\* router.MatcherFunc(m).Handler(h)
MatcherRoute(m, h) ==
    [kind |-> "matcher", lit |-> <<>>, wild |-> FALSE, matcher |-> m, handler |-> h]

\* router.PathPrefix("/").Subrouter() with Use(allRoutesMiddleware) and
\* PathPrefix("/").Handler(h)
SubrouterRoute(h) ==
    [kind |-> "subrouter", lit |-> <<"/">>, wild |-> TRUE, matcher |-> "", handler |-> h]

\* a block of routes registered only under a condition
When(cond, rs) == IF cond THEN rs ELSE <<>>

\* the routes every configuration registers, lines 93 to 99 of New
UnconditionalRoutes ==
    <<
      \* /redir/{data:.*}
      PathRoute(<<"/", "r", "e", "d", "i", "r", "/">>, TRUE, "AnalyticsHandler"),
      \* /download/{uri:.*}
      PathRoute(<<"/", "d", "o", "w", "n", "l", "o", "a", "d", "/">>, TRUE, "DownloadHandler"),
      \* /cookies{uri:.*}
      PathRoute(<<"/", "c", "o", "o", "k", "i", "e", "s">>, TRUE, "CookieHandler"),
      \* /datasets/{uri:.*}
      PathRoute(<<"/", "d", "a", "t", "a", "s", "e", "t", "s", "/">>, TRUE, "DatasetHandler"),
      \* /filters/{uri:.*}
      PathRoute(<<"/", "f", "i", "l", "t", "e", "r", "s", "/">>, TRUE, "datasetType(FilterHandler,FilterFlexHandler)"),
      \* /filter-outputs/{uri:.*}
      PathRoute(<<"/", "f", "i", "l", "t", "e", "r", "-", "o", "u", "t", "p", "u", "t", "s", "/">>, TRUE, "FilterHandler"),
      \* /feedback{uri:.*}
      PathRoute(<<"/", "f", "e", "e", "d", "b", "a", "c", "k">>, TRUE, "FeedbackHandler")
    >>

\* the two legacy search redirects
LegacySearchRoutes ==
    <<
      \* /searchdata
      PathRoute(<<"/", "s", "e", "a", "r", "c", "h", "d", "a", "t", "a">>, FALSE, "DynamicRedirect(/searchdata,/search)"),
      \* /searchpublication
      PathRoute(<<"/", "s", "e", "a", "r", "c", "h", "p", "u", "b", "l", "i", "c", "a", "t", "i", "o", "n">>, FALSE, "DynamicRedirect(/searchpublication,/search)")
    >>

\* the eight search aliases that need both search flags
DataAggregationRoutes ==
    <<
      \* /alladhocs
      PathRoute(<<"/", "a", "l", "l", "a", "d", "h", "o", "c", "s">>, FALSE, "SearchHandler"),
      \* /datalist
      PathRoute(<<"/", "d", "a", "t", "a", "l", "i", "s", "t">>, FALSE, "SearchHandler"),
      \* /allmethodologies
      PathRoute(<<"/", "a", "l", "l", "m", "e", "t", "h", "o", "d", "o", "l", "o", "g", "i", "e", "s">>, FALSE, "SearchHandler"),
      \* /publishedrequests
      PathRoute(<<"/", "p", "u", "b", "l", "i", "s", "h", "e", "d", "r", "e", "q", "u", "e", "s", "t", "s">>, FALSE, "SearchHandler"),
      \* /staticlist
      PathRoute(<<"/", "s", "t", "a", "t", "i", "c", "l", "i", "s", "t">>, FALSE, "SearchHandler"),
      \* /publications
      PathRoute(<<"/", "p", "u", "b", "l", "i", "c", "a", "t", "i", "o", "n", "s">>, FALSE, "SearchHandler"),
      \* /topicspecificmethodology
      PathRoute(<<"/", "t", "o", "p", "i", "c", "s", "p", "e", "c", "i", "f", "i", "c", "m", "e", "t", "h", "o", "d", "o", "l", "o", "g", "y">>, FALSE, "SearchHandler"),
      \* /timeseriestool
      PathRoute(<<"/", "t", "i", "m", "e", "s", "e", "r", "i", "e", "s", "t", "o", "o", "l">>, FALSE, "SearchHandler")
    >>

\* variant: the releases route left on the release-calendar handler
RelCalRoutesSplit(c) ==
    LET target == IF c.flags["UseNewReleaseCalendar"]
                  THEN "relcal(RelCalHandler)"
                  ELSE "relcal(BabbageHandler)"
    IN  <<
          PathRoute(c.RelCalRoutePrefix \o <<"/", "r", "e", "l", "e", "a", "s", "e", "c", "a", "l", "e", "n", "d", "a", "r">>, FALSE, target),
          PathRoute(c.RelCalRoutePrefix \o <<"/", "r", "e", "l", "e", "a", "s", "e", "s", "/">>, TRUE, "relcal(RelCalHandler)"),
          PathRoute(c.RelCalRoutePrefix \o <<"/", "c", "a", "l", "e", "n", "d", "a", "r", "/", "r", "e", "l", "e", "a", "s", "e", "c", "a", "l", "e", "n", "d", "a", "r">>, FALSE, "RelCalHandler")
        >>

\* the release-calendar routes under Config.RelCalRoutePrefix
RelCalRoutes(c) ==
    LET target == IF c.flags["UseNewReleaseCalendar"]
                  THEN "relcal(RelCalHandler)"
                  ELSE "relcal(BabbageHandler)"
    IN  <<
          \* prefix + /releasecalendar
          PathRoute(c.RelCalRoutePrefix \o <<"/", "r", "e", "l", "e", "a", "s", "e", "c", "a", "l", "e", "n", "d", "a", "r">>, FALSE, target),
          \* prefix + /releases/{uri:.*}
          PathRoute(c.RelCalRoutePrefix \o <<"/", "r", "e", "l", "e", "a", "s", "e", "s", "/">>, TRUE, target),
          \* prefix + /calendar/releasecalendar
          PathRoute(c.RelCalRoutePrefix \o <<"/", "c", "a", "l", "e", "n", "d", "a", "r", "/", "r", "e", "l", "e", "a", "s", "e", "c", "a", "l", "e", "n", "d", "a", "r">>, FALSE, "RelCalHandler")
        >>

\* variant: the census atlas route registered for everything under /census
AreaRoutesCensusWide(c) ==
       <<PathRoute(<<"/">>, FALSE, "HomepageHandler")>>
    \o When(c.flags["CensusAtlasEnabled"],
            <<PathRoute(<<"/", "c", "e", "n", "s", "u", "s">>, TRUE, "CensusAtlasHandler")>>)
    \o <<PathRoute(<<"/", "c", "e", "n", "s", "u", "s">>, FALSE, "HomepageHandler")>>
    \o When(c.flags["DatasetFinderEnabled"],
            <<PathRoute(<<"/", "c", "e", "n", "s", "u", "s", "/", "f", "i", "n", "d", "-", "a", "-", "d", "a", "t", "a", "s", "e", "t">>, FALSE, "SearchHandler")>>)

\* the homepage and the census pages, the first routes New registers
AreaRoutes(c) ==
       \* /
       <<PathRoute(<<"/">>, FALSE, "HomepageHandler")>>
       \* /census/maps{uri:.*}
    \o When(c.flags["CensusAtlasEnabled"],
            <<PathRoute(<<"/", "c", "e", "n", "s", "u", "s", "/", "m", "a", "p", "s">>, TRUE, "CensusAtlasHandler")>>)
       \* /census
    \o <<PathRoute(<<"/", "c", "e", "n", "s", "u", "s">>, FALSE, "HomepageHandler")>>
       \* /census/find-a-dataset
    \o When(c.flags["DatasetFinderEnabled"],
            <<PathRoute(<<"/", "c", "e", "n", "s", "u", "s", "/", "f", "i", "n", "d", "-", "a", "-", "d", "a", "t", "a", "s", "e", "t">>, FALSE, "SearchHandler")>>)

\* variant: /search registered whatever the search flag says
SearchRoutesUngated(c) ==
       When(c.flags["SearchRoutesEnabled"],
            When(c.flags["DataAggregationPagesEnabled"], DataAggregationRoutes))
    \o <<PathRoute(<<"/", "s", "e", "a", "r", "c", "h">>, FALSE, "SearchHandler")>>

\* the search routes
SearchRoutes(c) ==
    When(c.flags["SearchRoutesEnabled"],
            When(c.flags["DataAggregationPagesEnabled"], DataAggregationRoutes)
            \* /search
         \o <<PathRoute(<<"/", "s", "e", "a", "r", "c", "h">>, FALSE, "SearchHandler")>>)

\* the static and prefix routes, registered before any fallback
ExplicitRoutes(c) ==
       AreaRoutes(c)
    \o UnconditionalRoutes
    \o When(c.flags["LegacySearchRedirectsEnabled"], LegacySearchRoutes)
    \o SearchRoutes(c)
    \o When(c.flags["RelCalEnabled"], RelCalRoutes(c))

\* variant: the file-extension matcher registered ahead of the explicit routes
NewFileMatcherFirst(c) ==
       <<MatcherRoute("hasFileExtMatcher", "BabbageHandler")>>
    \o ExplicitRoutes(c)
    \o <<MatcherRoute("isKnownBabbageEndpointMatcher", "BabbageHandler"),
         SubrouterRoute("BabbageHandler")>>

\* the routes New(cfg) registers on the mux router, in registration order:
\* the explicit routes, the two fallback matchers, the classification subrouter
New(c) ==
       ExplicitRoutes(c)
    \o <<MatcherRoute("hasFileExtMatcher", "BabbageHandler"),
         MatcherRoute("isKnownBabbageEndpointMatcher", "BabbageHandler"),
         SubrouterRoute("BabbageHandler")>>

\* the handlers map given to allRoutes.Handler: page type -> handler
AllRoutesHandlers(c) ==
    IF c.flags["NewDatasetRoutingEnabled"]
    THEN [t \in {"dataset_landing_page", "dataset"} |->
             IF t = "dataset" THEN "PrefixDatasetHandler" ELSE "DatasetHandler"]
    ELSE [t \in {"dataset_landing_page"} |-> "DatasetHandler"]

----------------------------------------------------------------------------
(* The fallback matchers and mux's route matching *)

\* the position of the last "/" of p (0 when there is none)
LastSlash(p) ==
    LET S == {i \in 1..Len(p) : p[i] = "/"}
    IN  IF S = {} THEN 0 ELSE CHOOSE i \in S : \A j \in S : j <= i

\* hasFileExtMatcher: the final segment of the path carries an extension,
\* a "." followed by at least one character
hasFileExt(p) ==
    \E i \in (LastSlash(p) + 1)..(Len(p) - 1) : p[i] = "."

\* the allow-list of endpoints owned by the legacy backend:
\* "/chartimage" and "/export"
KnownBabbageEndpoints == {<<"/", "c", "h", "a", "r", "t", "i", "m", "a", "g", "e">>,
                          <<"/", "e", "x", "p", "o", "r", "t">>}

\* isKnownBabbageEndpointMatcher: the path is an entry of the allow-list
\* or is prefixed by one
isKnownBabbageEndpoint(p) ==
    \E e \in KnownBabbageEndpoints : HasPrefix(p, e)

\* mux Route.Match for one route of the table
RouteMatches(r, p) ==
    CASE r.kind = "path" -> IF r.wild THEN HasPrefix(p, r.lit) ELSE p = r.lit
      [] r.kind = "matcher" ->
            IF r.matcher = "hasFileExtMatcher"
            THEN hasFileExt(p)
            ELSE isKnownBabbageEndpoint(p)
      [] OTHER -> HasPrefix(p, r.lit)

\* mux Router.Match: the index of the first registered route that matches,
\* 0 when none does (mux then answers with its NotFoundHandler)
Match(rs, p) ==
    LET M == {i \in 1..Len(rs) : RouteMatches(rs[i], p)}
    IN  IF M = {} THEN 0 ELSE CHOOSE i \in M : \A j \in M : i <= j

\* the precedence tier of a route of the table
Tier(r) ==
    CASE r.kind = "path" -> "explicit"
      [] r.kind = "matcher" /\ r.matcher = "hasFileExtMatcher" -> "extension"
      [] r.kind = "matcher" -> "known-endpoint"
      [] OTHER -> "classification"

\* the page types the content-metadata lookup can report for a path, and
\* "error" for a failed lookup
PageTypes == {"dataset_landing_page", "dataset", "bulletin", "error"}

----------------------------------------------------------------------------
(* Request paths served *)

Paths == {
    \* /
    <<"/">>,
    \* /health
    <<"/", "h", "e", "a", "l", "t", "h">>,
    \* /health/x
    <<"/", "h", "e", "a", "l", "t", "h", "/", "x">>,
    \* /embed
    <<"/", "e", "m", "b", "e", "d">>,
    \* /embed/x
    <<"/", "e", "m", "b", "e", "d", "/", "x">>,
    \* /visualisations
    <<"/", "v", "i", "s", "u", "a", "l", "i", "s", "a", "t", "i", "o", "n", "s">>,
    \* /visualisations/x
    <<"/", "v", "i", "s", "u", "a", "l", "i", "s", "a", "t", "i", "o", "n", "s", "/", "x">>,
    \* /census/maps
    <<"/", "c", "e", "n", "s", "u", "s", "/", "m", "a", "p", "s">>,
    \* /census/maps/
    <<"/", "c", "e", "n", "s", "u", "s", "/", "m", "a", "p", "s", "/">>,
    \* /census/maps/x
    <<"/", "c", "e", "n", "s", "u", "s", "/", "m", "a", "p", "s", "/", "x">>,
    \* /census
    <<"/", "c", "e", "n", "s", "u", "s">>,
    \* /census/find-a-dataset
    <<"/", "c", "e", "n", "s", "u", "s", "/", "f", "i", "n", "d", "-", "a", "-", "d", "a", "t", "a", "s", "e", "t">>,
    \* /redir/x
    <<"/", "r", "e", "d", "i", "r", "/", "x">>,
    \* /download/x
    <<"/", "d", "o", "w", "n", "l", "o", "a", "d", "/", "x">>,
    \* /cookies
    <<"/", "c", "o", "o", "k", "i", "e", "s">>,
    \* /cookies/x
    <<"/", "c", "o", "o", "k", "i", "e", "s", "/", "x">>,
    \* /datasets
    <<"/", "d", "a", "t", "a", "s", "e", "t", "s">>,
    \* /datasets/x
    <<"/", "d", "a", "t", "a", "s", "e", "t", "s", "/", "x">>,
    \* /datasets/x.csv
    <<"/", "d", "a", "t", "a", "s", "e", "t", "s", "/", "x", ".", "c", "s", "v">>,
    \* /filters/x
    <<"/", "f", "i", "l", "t", "e", "r", "s", "/", "x">>,
    \* /filter-outputs/x
    <<"/", "f", "i", "l", "t", "e", "r", "-", "o", "u", "t", "p", "u", "t", "s", "/", "x">>,
    \* /feedback
    <<"/", "f", "e", "e", "d", "b", "a", "c", "k">>,
    \* /feedback/x
    <<"/", "f", "e", "e", "d", "b", "a", "c", "k", "/", "x">>,
    \* /searchdata
    <<"/", "s", "e", "a", "r", "c", "h", "d", "a", "t", "a">>,
    \* /searchpublication
    <<"/", "s", "e", "a", "r", "c", "h", "p", "u", "b", "l", "i", "c", "a", "t", "i", "o", "n">>,
    \* /alladhocs
    <<"/", "a", "l", "l", "a", "d", "h", "o", "c", "s">>,
    \* /timeseriestool
    <<"/", "t", "i", "m", "e", "s", "e", "r", "i", "e", "s", "t", "o", "o", "l">>,
    \* /search
    <<"/", "s", "e", "a", "r", "c", "h">>,
    \* /releasecalendar
    <<"/", "r", "e", "l", "e", "a", "s", "e", "c", "a", "l", "e", "n", "d", "a", "r">>,
    \* /releases/x
    <<"/", "r", "e", "l", "e", "a", "s", "e", "s", "/", "x">>,
    \* /calendar/releasecalendar
    <<"/", "c", "a", "l", "e", "n", "d", "a", "r", "/", "r", "e", "l", "e", "a", "s", "e", "c", "a", "l", "e", "n", "d", "a", "r">>,
    \* /p/releasecalendar
    <<"/", "p", "/", "r", "e", "l", "e", "a", "s", "e", "c", "a", "l", "e", "n", "d", "a", "r">>,
    \* /p/releases/x
    <<"/", "p", "/", "r", "e", "l", "e", "a", "s", "e", "s", "/", "x">>,
    \* /p/calendar/releasecalendar
    <<"/", "p", "/", "c", "a", "l", "e", "n", "d", "a", "r", "/", "r", "e", "l", "e", "a", "s", "e", "c", "a", "l", "e", "n", "d", "a", "r">>,
    \* /report.pdf
    <<"/", "r", "e", "p", "o", "r", "t", ".", "p", "d", "f">>,
    \* /economy/report.pdf
    <<"/", "e", "c", "o", "n", "o", "m", "y", "/", "r", "e", "p", "o", "r", "t", ".", "p", "d", "f">>,
    \* /a.b/c
    <<"/", "a", ".", "b", "/", "c">>,
    \* /economy
    <<"/", "e", "c", "o", "n", "o", "m", "y">>,
    \* /chartimage
    <<"/", "c", "h", "a", "r", "t", "i", "m", "a", "g", "e">>,
    \* /chartimage/x
    <<"/", "c", "h", "a", "r", "t", "i", "m", "a", "g", "e", "/", "x">>,
    \* /chartimage/x.png
    <<"/", "c", "h", "a", "r", "t", "i", "m", "a", "g", "e", "/", "x", ".", "p", "n", "g">>,
    \* /export
    <<"/", "e", "x", "p", "o", "r", "t">>
}

----------------------------------------------------------------------------
(* Serving a request: one action per stage of the chain *)

\* the stage the request stands before
AtStage(s) == pc = "run" /\ pos <= Len(chain) /\ chain[pos] = s

\* h.ServeHTTP(w, req): the stage hands the same request to the next one
CallNext(s) ==
    /\ trace' = Append(trace, s)
    /\ pos' = pos + 1
    /\ UNCHANGED <<pc, path, served, tier>>

\* the stage writes the response itself and the chain ends there
EndRequest(s, by) ==
    /\ trace' = Append(trace, s)
    /\ served' = by
    /\ pc' = "done"
    /\ UNCHANGED <<pos, path, tier>>

\* variant: the maps exemption tested without its trailing slash
FrameOptionsLooseMaps(p) ==
    IF /\ p # EmbedPath
       /\ ~HasPrefix(p, VisualisationsPrefix)
       /\ ~HasPrefix(p, <<"/", "c", "e", "n", "s", "u", "s", "/", "m", "a", "p", "s">>)
    THEN "SAMEORIGIN"
    ELSE ""

\* the value SecurityHandler leaves in X-Frame-Options ("" is not set)
FrameOptions(p) ==
    IF /\ p # EmbedPath
       /\ ~HasPrefix(p, VisualisationsPrefix)
       /\ ~HasPrefix(p, CensusMapsPrefix)
    THEN "SAMEORIGIN"
    ELSE ""

\* variant: the health path tested as a prefix
IsHealthPathByPrefix(p) == HasPrefix(p, HealthPath)

\* req.URL.Path == "/health"
IsHealthPath(p) == p = HealthPath

\* the server accepts a request and enters the chain
Receive(p) ==
    /\ pc = "idle"
    /\ pc' = "run"
    /\ path' = p
    /\ pos' = 1
    /\ trace' = <<>>
    /\ header' = ""
    /\ served' = "none"
    /\ tier' = "none"
    /\ UNCHANGED <<cfg, otelEnabled, chain, routes, handlers, storeVars>>

\* dprequest.HandlerRequestID(16)
HandlerRequestID ==
    /\ AtStage("RequestID")
    /\ CallNext("RequestID")
    /\ UNCHANGED <<header, cfg, otelEnabled, chain, routes, handlers, storeVars>>

\* log.Middleware
LogMiddleware ==
    /\ AtStage("Logger")
    /\ CallNext("Logger")
    /\ UNCHANGED <<header, cfg, otelEnabled, chain, routes, handlers, storeVars>>

\* SecurityHandler
SecurityHandler ==
    /\ AtStage("Security")
    /\ header' = (IF FrameOptions(path) # "" THEN FrameOptions(path) ELSE header)
    /\ CallNext("Security")
    /\ UNCHANGED <<cfg, otelEnabled, chain, routes, handlers, storeVars>>

\* healthcheckHandler(cfg.HealthCheckHandler)
healthcheckHandler ==
    /\ AtStage("Health")
    /\ IF IsHealthPath(path)
       THEN EndRequest("Health", "HealthCheckHandler")
       ELSE CallNext("Health")
    /\ UNCHANGED <<header, cfg, otelEnabled, chain, routes, handlers, storeVars>>

\* redirects.Handler: answers with a redirect or hands the request on
RedirectsHandler ==
    /\ AtStage("Redirects")
    /\ \E redirect \in BOOLEAN :
          IF redirect
          THEN EndRequest("Redirects", "Redirect")
          ELSE CallNext("Redirects")
    /\ UNCHANGED <<header, cfg, otelEnabled, chain, routes, handlers, storeVars>>

\* otelhttp.NewMiddleware("dp-frontend-router")
OtelMiddleware ==
    /\ AtStage("Otel")
    /\ CallNext("Otel")
    /\ UNCHANGED <<header, cfg, otelEnabled, chain, routes, handlers, storeVars>>

\* the mux router: the first matching route takes the request; the
\* subrouter's route runs allRoutesMiddleware before its handler
RouterServeHTTP ==
    /\ AtStage("Router")
    /\ trace' = Append(trace, "Router")
    /\ LET i == Match(routes, path)
       IN  IF i = 0
           THEN /\ served' = "NotFound"
                /\ tier' = "none"
                /\ pc' = "done"
           ELSE IF routes[i].kind = "subrouter"
           THEN /\ served' = served
                /\ tier' = Tier(routes[i])
                /\ pc' = "classify"
           ELSE /\ served' = routes[i].handler
                /\ tier' = Tier(routes[i])
                /\ pc' = "done"
    /\ UNCHANGED <<pos, path, header, cfg, otelEnabled, chain, routes, handlers, storeVars>>

\* allRoutes.Handler: the handler mapped to the page type of the path, and
\* the subrouter's own handler when the type has none or the lookup fails
AllRoutesMiddleware ==
    /\ pc = "classify"
    /\ \E t \in PageTypes :
          /\ trace' = Append(trace, "AllRoutes")
          /\ IF t \in DOMAIN handlers
             THEN /\ served' = handlers[t]
                  /\ tier' = "classification"
             ELSE /\ served' = routes[Match(routes, path)].handler
                  /\ tier' = "default"
    /\ pc' = "done"
    /\ UNCHANGED <<pos, path, header, cfg, otelEnabled, chain, routes, handlers, storeVars>>

\* the response is complete; the server is ready for the next request
Finish ==
    /\ pc = "done"
    /\ pc' = "idle"
    /\ path' = <<"/">>
    /\ pos' = 1
    /\ trace' = <<>>
    /\ header' = ""
    /\ served' = "none"
    /\ tier' = "none"
    /\ UNCHANGED <<cfg, otelEnabled, chain, routes, handlers, storeVars>>

----------------------------------------------------------------------------
(* The analytics sink: sqsBackend.Store *)

\* float64 arguments: two finite values and two that JSON cannot carry
Float64s == {"0", "1", "NaN", "+Inf"}

\* json.Marshal rejects a float64 that is NaN or infinite
IsFinite(x) == x \notin {"NaN", "+Inf"}

\* the arguments of one Store call
StoreArgs ==
    [url : {"/a", "/b"}, term : {"cpi"}, listType : {"search"},
     gaID : {"ga"}, gID : {"g"},
     pageIndex : Float64s, linkIndex : Float64s, pageSize : Float64s]

\* the map Store builds: the arguments and the creation time
Data(a) ==
    [created |-> "now", url |-> a.url, term |-> a.term, listType |-> a.listType,
     gaID |-> a.gaID, gID |-> a.gID, pageIndex |-> a.pageIndex,
     linkIndex |-> a.linkIndex, pageSize |-> a.pageSize]

\* json.Marshal(&data) succeeds
MarshalOK(d) ==
    IsFinite(d.pageIndex) /\ IsFinite(d.linkIndex) /\ IsFinite(d.pageSize)

\* variant: the transport call made again after an error
AfterSendErrorRetry == "send"

\* where Store goes when SendMessage returns an error: it logs and returns
AfterSendError == "returned"

\* a request handler calls Store
StoreCall(a) ==
    /\ spc = "idle"
    /\ args' = a
    /\ spc' = "marshal"
    /\ jb' = "none"
    /\ sendCalls' = 0
    /\ logs' = <<>>
    /\ blocked' = 0
    /\ responded' = FALSE
    /\ UNCHANGED routerVars

\* jb, err := json.Marshal(&data); on an error Store logs and returns
Marshal ==
    /\ spc = "marshal"
    /\ IF MarshalOK(Data(args))
       THEN /\ jb' = Data(args)
            /\ spc' = "send"
            /\ logs' = logs
       ELSE /\ jb' = jb
            /\ spc' = "returned"
            /\ logs' = Append(logs, [level |-> "error", msg |-> "error marshaling json"])
    /\ UNCHANGED <<args, sendCalls, blocked, responded, routerVars>>

\* b.sqsClient.SendMessage(req.Context(), smi) is called
SendMessage ==
    /\ spc = "send"
    /\ sendCalls' = sendCalls + 1
    /\ spc' = "inflight"
    /\ blocked' = 0
    /\ UNCHANGED <<args, jb, logs, responded, routerVars>>

\* the transport call has not returned yet
SendMessageBlocks ==
    /\ spc = "inflight"
    /\ blocked < MaxBlock
    /\ blocked' = blocked + 1
    /\ UNCHANGED <<spc, args, jb, sendCalls, logs, responded, routerVars>>

\* the transport call returns, with a message id or with an error
SendMessageReturns ==
    /\ spc = "inflight"
    /\ \E ok \in BOOLEAN :
          IF ok
          THEN /\ logs' = Append(logs, [level |-> "info", msg |-> "stored analytics data in SQS"])
               /\ spc' = "returned"
          ELSE /\ logs' = Append(logs, [level |-> "error", msg |-> "error sending sqs message"])
               /\ spc' = AfterSendError
    /\ UNCHANGED <<args, jb, sendCalls, blocked, responded, routerVars>>

\* Store has returned: its caller goes on and completes the response
CallerResponds ==
    /\ spc = "returned"
    /\ ~responded
    /\ responded' = TRUE
    /\ UNCHANGED <<spc, args, jb, sendCalls, logs, blocked, routerVars>>

\* the request is over
StoreDone ==
    /\ spc = "returned"
    /\ responded
    /\ spc' = "idle"
    /\ UNCHANGED <<args, jb, sendCalls, logs, blocked, responded, routerVars>>

----------------------------------------------------------------------------
(* Specifications *)

\* the state of the sink before its first call
StoreIdle ==
    /\ spc = "idle"
    /\ args = CHOOSE a \in StoreArgs : TRUE
    /\ jb = "none"
    /\ sendCalls = 0
    /\ logs = <<>>
    /\ blocked = 0
    /\ responded = FALSE

\* the state of the server before its first request
RouterIdle ==
    /\ pc = "idle"
    /\ path = <<"/">>
    /\ pos = 1
    /\ trace = <<>>
    /\ header = ""
    /\ served = "none"
    /\ tier = "none"

\* New(cfg): the chain and the route table are built once, from the
\* configuration and the startup toggle
Built(c, otel) ==
    /\ cfg = c
    /\ otelEnabled = otel
    /\ chain = Chain(otel)
    /\ routes = New(c)
    /\ handlers = AllRoutesHandlers(c)

Init ==
    /\ \E c \in Configs, otel \in BOOLEAN : Built(c, otel)
    /\ RouterIdle
    /\ StoreIdle

Next ==
    \/ \E p \in Paths : Receive(p)
    \/ HandlerRequestID
    \/ LogMiddleware
    \/ SecurityHandler
    \/ healthcheckHandler
    \/ RedirectsHandler
    \/ OtelMiddleware
    \/ RouterServeHTTP
    \/ AllRoutesMiddleware
    \/ Finish

Spec == Init /\ [][Next]_vars

\* the analytics sink alone, behind a router of one configuration
InitStore ==
    /\ Built(CHOOSE c \in Configs : TRUE, FALSE)
    /\ RouterIdle
    /\ StoreIdle

NextStore ==
    \/ \E a \in StoreArgs : StoreCall(a)
    \/ Marshal
    \/ SendMessage
    \/ SendMessageBlocks
    \/ SendMessageReturns
    \/ CallerResponds
    \/ StoreDone

SpecStore == InitStore /\ [][NextStore]_vars

----------------------------------------------------------------------------
(* Properties of the middleware chain *)

\* the stages the request has been through contain s
Ran(s) == \E i \in 1..Len(trace) : trace[i] = s

\* the request was dispatched by the route table
Dispatched == pc = "done" /\ Ran("Router")

\* C1: under every flag assignment and both values of the tracing toggle, a
\* request for exactly /health is answered by the health-check callback and
\* reaches no later stage (redirect resolver, tracing, route table,
\* classification); a request for any other path is never answered by the
\* callback and goes from the health stage to the redirect resolver.
HealthShortCircuit ==
    /\ (pc # "idle" /\ path = HealthPath) =>
          /\ ~Ran("Redirects") /\ ~Ran("Otel") /\ ~Ran("Router") /\ ~Ran("AllRoutes")
          /\ pc # "classify"
          /\ served \in {"none", "HealthCheckHandler"}
          /\ (pc = "done" => served = "HealthCheckHandler")
          /\ (pc = "run" => pos <= 4)
    /\ (pc # "idle" /\ path # HealthPath) =>
          /\ served # "HealthCheckHandler"
          /\ \A i \in 1..Len(trace) :
                trace[i] = "Health" =>
                   IF i < Len(trace)
                   THEN trace[i + 1] = "Redirects"
                   ELSE pc = "run" /\ chain[pos] = "Redirects"

\* C1 witness: /health answered by the callback with every flag and tracing on
HealthShortCircuitWitness ==
    /\ pc = "done"
    /\ path = HealthPath
    /\ served = "HealthCheckHandler"
    /\ otelEnabled
    /\ \A f \in Flags : cfg.flags[f]

\* the paths SecurityHandler leaves without the header
FrameExempt(p) ==
    \/ p = EmbedPath
    \/ HasPrefix(p, VisualisationsPrefix)
    \/ HasPrefix(p, CensusMapsPrefix)

\* C2: once SecurityHandler has run, X-Frame-Options is SAMEORIGIN exactly
\* when the path is not /embed, not under /visualisations/ and not under
\* /census/maps/; it runs before any stage that can answer, so the header is
\* there on a /health answer and on a redirect, and on /census/maps.
FrameOptionsHeader ==
    /\ Ran("Security") => (header = "SAMEORIGIN" <=> ~FrameExempt(path))
    /\ ~Ran("Security") => header = ""
    /\ served # "none" => Ran("Security")
    /\ (Ran("Health") \/ Ran("Redirects") \/ Ran("Router")) => Ran("Security")
    /\ (Ran("Security") /\ path = <<"/", "c", "e", "n", "s", "u", "s", "/", "m", "a", "p", "s">>) => header = "SAMEORIGIN"

\* C2 witness: a redirect answered for /census/maps carries the header
FrameOptionsHeaderWitness ==
    /\ pc = "done"
    /\ served = "Redirect"
    /\ path = <<"/", "c", "e", "n", "s", "u", "s", "/", "m", "a", "p", "s">>
    /\ header = "SAMEORIGIN"

\* the stage order of the chain for a value of the tracing toggle
StageOrder(otel) ==
    IF otel
    THEN <<"RequestID", "Logger", "Security", "Health", "Redirects", "Otel", "Router">>
    ELSE <<"RequestID", "Logger", "Security", "Health", "Redirects", "Router">>

\* the stages of the chain a request has run, without the classification
\* middleware that runs inside the route table
ChainTrace == SelectSeq(trace, LAMBDA s : s # "AllRoutes")

\* C10: the stages a request has run are always an initial part of
\* RequestID, Logger, Security, Health, Redirects, (Otel), Router, so no stage
\* runs before every stage ahead of it has run and passed the request on; the
\* tracing stage is in the chain exactly when the toggle is on, then directly
\* ahead of the route table and after the redirect resolver.
ChainOrder ==
    /\ Len(ChainTrace) <= Len(StageOrder(otelEnabled))
    /\ ChainTrace = SubSeq(StageOrder(otelEnabled), 1, Len(ChainTrace))
    /\ (\E i \in 1..Len(chain) : chain[i] = "Otel") <=> otelEnabled
    /\ otelEnabled => /\ chain[Len(chain) - 1] = "Otel"
                      /\ chain[Len(chain) - 2] = "Redirects"
    /\ chain[Len(chain)] = "Router"
    /\ Ran("AllRoutes") => Ran("Router")

\* C10 witness: with tracing on, a request went through every stage and was
\* dispatched by the route table
ChainOrderWitness ==
    /\ otelEnabled
    /\ Dispatched
    /\ ChainTrace = <<"RequestID", "Logger", "Security", "Health", "Redirects", "Otel", "Router">>

----------------------------------------------------------------------------
(* Properties of the route table *)

\* a path under the configured release-calendar prefix
UnderPrefix(suffix) == cfg.RelCalRoutePrefix \o suffix

\* the indexes of the explicit routes registered for a template
RoutesFor(rs, lit, wild) ==
    {i \in 1..Len(rs) : rs[i].kind = "path" /\ rs[i].lit = lit /\ rs[i].wild = wild}

\* C3: whenever release-calendar is enabled, {prefix}/calendar/releasecalendar
\* resolves to the legacy (Babbage) handler, for both values of
\* UseNewReleaseCalendar.
CalendarAliasLegacy ==
    (/\ cfg.flags["RelCalEnabled"]
     /\ Dispatched
     /\ path = UnderPrefix(<<"/", "c", "a", "l", "e", "n", "d", "a", "r", "/", "r", "e", "l", "e", "a", "s", "e", "c", "a", "l", "e", "n", "d", "a", "r">>))
        => served = "BabbageHandler"

\* the handler the second release-calendar flag selects
RelCalTarget ==
    IF cfg.flags["UseNewReleaseCalendar"]
    THEN "relcal(RelCalHandler)"
    ELSE "relcal(BabbageHandler)"

\* the configuration with the second release-calendar flag switched
FlipUseNew(c) ==
    [c EXCEPT !.flags["UseNewReleaseCalendar"] = ~c.flags["UseNewReleaseCalendar"]]

\* C4: with RelCalEnabled, {prefix}/releasecalendar and {prefix}/releases/*
\* are each registered once and bound to one and the same target, the
\* release-calendar handler when UseNewReleaseCalendar is true and the legacy
\* handler when it is false, and requests for them are dispatched to it;
\* without RelCalEnabled neither is registered and switching
\* UseNewReleaseCalendar changes neither the route table nor the
\* classification handlers.
ReleaseCalendarToggle ==
    LET rc  == UnderPrefix(<<"/", "r", "e", "l", "e", "a", "s", "e", "c", "a", "l", "e", "n", "d", "a", "r">>)
        rel == UnderPrefix(<<"/", "r", "e", "l", "e", "a", "s", "e", "s", "/">>)
    IN  /\ cfg.flags["RelCalEnabled"] =>
              /\ Cardinality(RoutesFor(routes, rc, FALSE)) = 1
              /\ Cardinality(RoutesFor(routes, rel, TRUE)) = 1
              /\ \A i \in RoutesFor(routes, rc, FALSE) \cup RoutesFor(routes, rel, TRUE) :
                    routes[i].handler = RelCalTarget
              /\ (Dispatched /\ (path = rc \/ HasPrefix(path, rel))) =>
                    served = RelCalTarget
        /\ ~cfg.flags["RelCalEnabled"] =>
              /\ RoutesFor(routes, rc, FALSE) = {}
              /\ RoutesFor(routes, rel, TRUE) = {}
              /\ New(FlipUseNew(cfg)) = routes
              /\ AllRoutesHandlers(FlipUseNew(cfg)) = handlers
              /\ served \notin {"relcal(RelCalHandler)", "relcal(BabbageHandler)"}

\* C4 witness: with the new release calendar selected, a request under
\* {prefix}/releases/ is dispatched to the release-calendar handler
ReleaseCalendarToggleWitness ==
    /\ cfg.flags["RelCalEnabled"]
    /\ cfg.flags["UseNewReleaseCalendar"]
    /\ Dispatched
    /\ HasPrefix(path, UnderPrefix(<<"/", "r", "e", "l", "e", "a", "s", "e", "s", "/">>))
    /\ served = "relcal(RelCalHandler)"

\* the explicit routes of the table that match the path
ExplicitMatches(rs, p) ==
    {i \in 1..Len(rs) : rs[i].kind = "path" /\ RouteMatches(rs[i], p)}

\* C5: a request that reaches the route table gets exactly one handler by the
\* precedence explicit route > extension fallback > known-endpoint fallback >
\* classification > legacy default: a path with an extension goes to the
\* legacy handler without classification unless an explicit route matches it
\* (/datasets/x.csv goes to the dataset handler), and a path no tier claims
\* ends at the legacy handler, never at an error.
DispatchPrecedence ==
    /\ served # "NotFound"
    /\ pc = "classify" =>
          /\ ExplicitMatches(routes, path) = {}
          /\ ~hasFileExt(path)
          /\ ~isKnownBabbageEndpoint(path)
    /\ Dispatched =>
          /\ served # "none"
          /\ IF ExplicitMatches(routes, path) # {}
             THEN /\ tier = "explicit"
                  /\ \E i \in ExplicitMatches(routes, path) :
                        /\ served = routes[i].handler
                        /\ \A j \in ExplicitMatches(routes, path) : i <= j
                  /\ ~Ran("AllRoutes")
             ELSE IF hasFileExt(path)
             THEN tier = "extension" /\ served = "BabbageHandler" /\ ~Ran("AllRoutes")
             ELSE IF isKnownBabbageEndpoint(path)
             THEN tier = "known-endpoint" /\ served = "BabbageHandler" /\ ~Ran("AllRoutes")
             ELSE /\ Ran("AllRoutes")
                  /\ tier \in {"classification", "default"}
                  /\ tier = "default" => served = "BabbageHandler"
                  /\ tier = "classification" =>
                        \E t \in DOMAIN handlers : served = handlers[t]
          /\ path = <<"/", "d", "a", "t", "a", "s", "e", "t", "s", "/", "x", ".", "c", "s", "v">> => served = "DatasetHandler"

\* C5 witness: /datasets/x.csv is dispatched to the dataset handler by its
\* explicit route although it carries an extension
DispatchPrecedenceWitness ==
    /\ Dispatched
    /\ path = <<"/", "d", "a", "t", "a", "s", "e", "t", "s", "/", "x", ".", "c", "s", "v">>
    /\ hasFileExt(path)
    /\ tier = "explicit"
    /\ served = "DatasetHandler"

\* the templates of the unconditional routes: /, /census, /redir/*,
\* /download/*, /cookies*, /datasets/*, /filters/*, /filter-outputs/*,
\* /feedback*
UnconditionalTemplates ==
    {<<"/">>,
     <<"/", "c", "e", "n", "s", "u", "s">>,
     <<"/", "r", "e", "d", "i", "r", "/">>,
     <<"/", "d", "o", "w", "n", "l", "o", "a", "d", "/">>,
     <<"/", "c", "o", "o", "k", "i", "e", "s">>,
     <<"/", "d", "a", "t", "a", "s", "e", "t", "s", "/">>,
     <<"/", "f", "i", "l", "t", "e", "r", "s", "/">>,
     <<"/", "f", "i", "l", "t", "e", "r", "-", "o", "u", "t", "p", "u", "t", "s", "/">>,
     <<"/", "f", "e", "e", "d", "b", "a", "c", "k">>}

\* the route belongs to an unconditional template
IsUnconditional(r) == r.kind = "path" /\ r.lit \in UnconditionalTemplates

\* the templates and matchers of a table, without the handlers bound to them
Patterns(rs) ==
    {[kind |-> rs[i].kind, lit |-> rs[i].lit, wild |-> rs[i].wild,
      matcher |-> rs[i].matcher] : i \in 1..Len(rs)}

\* the configuration with one more flag switched on
Enable(c, f) == [c EXCEPT !.flags[f] = TRUE]

\* whatever flag is switched on, no registered route goes away, the
\* unconditional routes keep their handlers and their order, and a request
\* dispatched to an unconditional route goes to the same handler afterwards
KeepsRoutes(f) ==
    LET after == New(Enable(cfg, f))
    IN  /\ Patterns(routes) \subseteq Patterns(after)
        /\ SelectSeq(after, IsUnconditional) = SelectSeq(routes, IsUnconditional)
        /\ (/\ Dispatched
            /\ tier = "explicit"
            /\ IsUnconditional(routes[Match(routes, path)])) =>
               /\ Match(after, path) # 0
               /\ IsUnconditional(after[Match(after, path)])
               /\ after[Match(after, path)].handler = served

\* the flags whose switching on registers at least one more route
AddsRoutes(c, f) ==
    \/ f \in {"CensusAtlasEnabled", "DatasetFinderEnabled",
              "LegacySearchRedirectsEnabled", "SearchRoutesEnabled", "RelCalEnabled"}
    \/ f = "DataAggregationPagesEnabled" /\ c.flags["SearchRoutesEnabled"]

\* C6 as stated: switching any single flag from false to true strictly adds
\* routes and keeps every unconditional route, its handler and the order.
FlagMonotonicityStrict ==
    \A f \in Flags :
        ~cfg.flags[f] =>
            /\ KeepsRoutes(f)
            /\ Patterns(New(Enable(cfg, f))) # Patterns(routes)

\* C6 amended: switching a single flag from false to true never removes a
\* registered route and keeps every unconditional route, its handler and the
\* order; at least one route is added by CensusAtlasEnabled,
\* DatasetFinderEnabled, LegacySearchRedirectsEnabled, SearchRoutesEnabled and
\* RelCalEnabled, and by DataAggregationPagesEnabled when SearchRoutesEnabled
\* is on; the other switches add no route.
FlagMonotonicity ==
    \A f \in Flags :
        ~cfg.flags[f] =>
            /\ KeepsRoutes(f)
            /\ AddsRoutes(cfg, f) <=> Patterns(New(Enable(cfg, f))) # Patterns(routes)

\* C6 witness: with the census atlas off, /census is dispatched to the
\* homepage handler, the route the atlas route is registered ahead of
FlagMonotonicityWitness ==
    /\ ~cfg.flags["CensusAtlasEnabled"]
    /\ ~cfg.flags["UseNewReleaseCalendar"]
    /\ Dispatched
    /\ path = <<"/", "c", "e", "n", "s", "u", "s">>
    /\ served = "HomepageHandler"

\* every optional flag is off
AllFlagsOff == \A f \in Flags : ~cfg.flags[f]

\* C7: with every optional flag off the explicit routes are the unconditional
\* ones alone, a dispatched request ends at one of their handlers, at the
\* legacy handler through a fallback matcher, or at the classification
\* subrouter (dataset handler or legacy default); nothing reaches the search,
\* release-calendar, census-atlas, legacy search redirect or prefix-dataset
\* handler, and the classification handler map holds dataset_landing_page only.
FlagsOffReachability ==
    AllFlagsOff =>
        /\ DOMAIN handlers = {"dataset_landing_page"}
        /\ \A i \in 1..Len(routes) :
              routes[i].kind = "path" => IsUnconditional(routes[i])
        /\ served \notin {"SearchHandler", "RelCalHandler", "relcal(RelCalHandler)",
                          "relcal(BabbageHandler)", "CensusAtlasHandler",
                          "DynamicRedirect(/searchdata,/search)",
                          "DynamicRedirect(/searchpublication,/search)",
                          "PrefixDatasetHandler", "NotFound"}
        /\ Dispatched =>
              /\ tier = "explicit" =>
                    /\ served \in {"HomepageHandler", "AnalyticsHandler", "DownloadHandler",
                                   "CookieHandler", "DatasetHandler",
                                   "datasetType(FilterHandler,FilterFlexHandler)",
                                   "FilterHandler", "FeedbackHandler"}
                    /\ served = "HomepageHandler" =>
                          path \in {<<"/">>, <<"/", "c", "e", "n", "s", "u", "s">>}
              /\ tier \in {"extension", "known-endpoint", "default"} =>
                    served = "BabbageHandler"
              /\ tier = "classification" => served = "DatasetHandler"

\* C7 witness: with every flag off, /search is no explicit route and ends at
\* the legacy default behind the classification subrouter
FlagsOffReachabilityWitness ==
    /\ AllFlagsOff
    /\ Dispatched
    /\ path = <<"/", "s", "e", "a", "r", "c", "h">>
    /\ tier = "default"
    /\ served = "BabbageHandler"

----------------------------------------------------------------------------
(* Properties of the analytics sink *)

\* a float64 argument that JSON cannot carry
Unserializable(a) ==
    \E k \in {"pageIndex", "linkIndex", "pageSize"} : a[k] \in {"NaN", "+Inf"}

SendOffResponsePath ==
    spc = "inflight" => ENABLED CallerResponds

====
